---- MODULE Spec2Model ----
(***************************************************************************)
(* Pet QR (app/main.py): scan recording and alert evaluation.              *)
(*                                                                         *)
(* State: the two SQLite tables the engine touches (pets, scans), the      *)
(* server clock, the alert configuration read from the environment at      *)
(* process start, and one record per worker holding the request it serves  *)
(* (the handler's local variables, its position, what it handed to the     *)
(* Discord sink and the HTTP response it produced).                        *)
(*                                                                         *)
(* Every sqlite3.connect(...) block of the source is one transaction and   *)
(* is one atomic step here; a handler is the sequence of its blocks.       *)
(*                                                                         *)
(* Units.  Time is whole minutes since 1970-01-01T00:00Z.  A stored        *)
(* timestamp is the ISO text, modelled as the tuple <<day, hour, minute>>  *)
(* of its fixed-width fields and compared field by field, as SQLite        *)
(* compares the text.  Coordinates are hundredths of a degree and          *)
(* distances are metres.  A JSON / SQL value is a record [t, v]:           *)
(* t = "null" (None / NULL), "num" (a number v), "str" (non-numeric text). *)
(***************************************************************************)
EXTENDS Integers, Sequences, FiniteSets, TLC

VARIABLES now, pets, scans, req, night_start, night_end

vars == <<now, pets, scans, req, night_start, night_end>>

-----------------------------------------------------------------------------
(* Values *)

Null == [t |-> "null", v |-> 0]
Num(x) == [t |-> "num", v |-> x]
Str == [t |-> "str", v |-> 0]

NoTs == <<>>

IsNone(x) == x.t = "null"

\* Python truthiness of a value read from a REAL column or a JSON body.
Truthy(x) == (x.t = "num" /\ x.v # 0) \/ x.t = "str"

-----------------------------------------------------------------------------
(* Configuration (environment defaults) *)

ALERT_DISTANCE_KM == 2000
ALERT_SCAN_BURST_MIN == 10
ALERT_SCAN_BURST_COUNT == 4
ALERT_NIGHT_START == 22
ALERT_NIGHT_END == 6
\* TZ = America/Argentina/Mendoza: UTC-03:00, no daylight saving.
TZ_OFFSET_MIN == -180
DISCORD_ENABLED == TRUE

-----------------------------------------------------------------------------
(* Bounds of the model *)

\* Rows the scans table may hold, per specification.
MaxScans == 3
MaxBurstScans == 4
MaxConcScans == 2
MaxNightScans == 1

\* Clock readings (minutes UTC): 00:50, 01:00 and 01:05, which are 21:50,
\* 22:00 and 22:05 local time.
Clock == {50, 60, 65}
ConcClock == {50, 60}

Workers == {"w1", "w2"}
Serial == {"w1"}

\* Pet ids of requests: "rocky" is the seeded pet, "ghost" has no row.
PetIds == {"rocky", "ghost"}

EventLat == -3289
EventLon == -6884

NoLocation == [lat |-> Null, lon |-> Null, accuracy |-> Null]
Located == [lat |-> Num(EventLat), lon |-> Num(EventLon), accuracy |-> Num(10)]
Malformed == [lat |-> Str, lon |-> Str, accuracy |-> Null]

\* JSON bodies of POST /api/scan and /api/report: lat, lon, accuracy.
Bodies == {NoLocation, Located, Malformed}
FewBodies == {NoLocation, Located}

\* Home locations the owner may save, (lat, lon): unset (0, 0), one
\* coordinate zero, 1.1 km from the event, 2.2 km from the event.
Homes ==
    { <<Num(0), Num(0)>>,
      <<Num(EventLat + 2), Num(0)>>,
      <<Num(EventLat + 1), Num(EventLon)>>,
      <<Num(EventLat + 2), Num(EventLon)>> }

\* The status field of the admin form, and lengths of a report's message.
StatusForms == {"home", "lost", "found"}
MessageLengths == {0, 3}

Limits == {0, 25}

SinkOutcomes == {"ok", "timeout"}

-----------------------------------------------------------------------------
(* Helpers *)

now_utc_iso(clock) == <<clock \div 1440, (clock % 1440) \div 60, clock % 60>>

parse_iso(ts) == ts[1] * 1440 + ts[2] * 60 + ts[3]

\* Text comparison a >= b of two ISO timestamps (SQLite, ts_utc >= ?).
IsoGE(a, b) ==
    \/ a[1] > b[1]
    \/ a[1] = b[1] /\ a[2] > b[2]
    \/ a[1] = b[1] /\ a[2] = b[2] /\ a[3] >= b[3]

LocalHour(ts) == ((parse_iso(ts) + TZ_OFFSET_MIN) \div 60) % 24

is_night_NoWrap(ts, start, end) ==
    LET h == LocalHour(ts)
    IN  start <= h /\ h < end

is_night(ts, start, end) ==
    LET h == LocalHour(ts)
    IN  IF start <= end
        THEN start <= h /\ h < end
        ELSE (h >= start) \/ (h < end)

Abs(x) == IF x < 0 THEN -x ELSE x

\* Great-circle distance in metres.  On one meridian (lon1 = lon2) the
\* haversine term a is sin(dlat/2)^2 and 2*R*asin(sqrt(a)) is R*|dlat|:
\* 6371000 * pi / 180 = 111194.9 m per degree.  The only points of the model
\* off the event's meridian are the homes of longitude 0, for which the
\* source's formula gives 8045.5 km from (0, 0) and 6302.6 km from
\* (-32.87, 0) to the event at (-32.89, -68.84).
haversine_km(lat1, lon1, lat2, lon2) ==
    CASE lon1 = lon2 -> (111195 * Abs(lat2 - lat1)) \div 100
      [] lon1 # lon2 /\ lat1 = 0 -> 8045533
      [] lon1 # lon2 /\ lat1 # 0 -> 6302582

-----------------------------------------------------------------------------
(* Tables *)

\* A row of pets (the columns the engine reads or writes).
PetRow(status, home_lat, home_lon) ==
    [status |-> status, home_lat |-> home_lat, home_lon |-> home_lon,
     last_seen_utc |-> NoTs, last_lat |-> Null, last_lon |-> Null,
     last_accuracy |-> Null]

\* db_get_pet's None.
NoPet == PetRow("none", Null, Null)

\* seed_default_pet: rocky, lost, home from HOME_LAT / HOME_LON (default 0).
seed_default_pet == [p \in {"rocky"} |-> PetRow("lost", Num(0), Num(0))]

db_get_pet_OrDefault(P, pet_id) ==
    IF pet_id \in DOMAIN P THEN P[pet_id] ELSE PetRow("lost", Null, Null)

\* SELECT * FROM pets WHERE id=?
db_get_pet(P, pet_id) == IF pet_id \in DOMAIN P THEN P[pet_id] ELSE NoPet

db_insert_scan_Dedup(S, pet_id, ts_utc, lat, lon, acc) ==
    IF \E i \in DOMAIN S :
          /\ S[i].pet_id = pet_id /\ S[i].ts_utc = ts_utc
          /\ S[i].lat = lat /\ S[i].lon = lon /\ S[i].accuracy = acc
    THEN S
    ELSE Append(S, [id |-> Len(S) + 1, pet_id |-> pet_id, ts_utc |-> ts_utc,
                    lat |-> lat, lon |-> lon, accuracy |-> acc])

\* INSERT INTO scans: the AUTOINCREMENT id is one more than the largest id.
db_insert_scan(S, pet_id, ts_utc, lat, lon, acc) ==
    Append(S, [id |-> Len(S) + 1, pet_id |-> pet_id, ts_utc |-> ts_utc,
               lat |-> lat, lon |-> lon, accuracy |-> acc])

db_update_last_seen_MarksLost(P, pet_id, ts_utc, lat, lon, acc) ==
    [p \in DOMAIN P |->
        IF p = pet_id
        THEN [P[p] EXCEPT !.status = "lost", !.last_seen_utc = ts_utc,
                          !.last_lat = lat, !.last_lon = lon,
                          !.last_accuracy = acc]
        ELSE P[p]]

db_update_last_seen_KeepLocation(P, pet_id, ts_utc, lat, lon, acc) ==
    [p \in DOMAIN P |->
        IF p = pet_id
        THEN IF IsNone(lat) \/ IsNone(lon)
             THEN [P[p] EXCEPT !.last_seen_utc = ts_utc]
             ELSE [P[p] EXCEPT !.last_seen_utc = ts_utc, !.last_lat = lat,
                               !.last_lon = lon, !.last_accuracy = acc]
        ELSE P[p]]

\* UPDATE pets SET last_seen_utc=?, last_lat=?, last_lon=?, last_accuracy=?
db_update_last_seen(P, pet_id, ts_utc, lat, lon, acc) ==
    [p \in DOMAIN P |->
        IF p = pet_id
        THEN [P[p] EXCEPT !.last_seen_utc = ts_utc, !.last_lat = lat,
                          !.last_lon = lon, !.last_accuracy = acc]
        ELSE P[p]]

\* SELECT COUNT(*) FROM scans WHERE pet_id=? AND ts_utc >= cutoff
db_scan_burst_count(S, pet_id, minutes, clock) ==
    LET cutoff == now_utc_iso(clock - minutes)
    IN  Cardinality({i \in DOMAIN S :
                        S[i].pet_id = pet_id /\ IsoGE(S[i].ts_utc, cutoff)})

Max(a, b) == IF a >= b THEN a ELSE b
Min(a, b) == IF a <= b THEN a ELSE b

\* Ids of the rows WHERE pet_id=? AND lat IS NOT NULL AND lon IS NOT NULL.
LocatedIds(S, pet_id) ==
    {i \in DOMAIN S :
        S[i].pet_id = pet_id /\ ~IsNone(S[i].lat) /\ ~IsNone(S[i].lon)}

RECURSIVE IdsDesc(_)
\* ORDER BY id DESC
IdsDesc(ids) ==
    IF ids = {} THEN <<>>
    ELSE LET m == CHOOSE i \in ids : \A j \in ids : j <= i
         IN  <<m>> \o IdsDesc(ids \ {m})

\* The rows db_last_locations selects, in the order it returns them.
LastLocationRows(S, pet_id, limit) ==
    LET lim == Max(1, Min(200, limit))
        ids == IdsDesc(LocatedIds(S, pet_id))
    IN  [k \in 1..Min(lim, Len(ids)) |-> S[ids[k]]]

\* SELECT ts_utc, lat, lon, accuracy ... ORDER BY id DESC LIMIT ?
db_last_locations(S, pet_id, limit) ==
    LET rows == LastLocationRows(S, pet_id, limit)
    IN  [k \in DOMAIN rows |->
            [ts_utc |-> rows[k].ts_utc, lat |-> rows[k].lat,
             lon |-> rows[k].lon, accuracy |-> rows[k].accuracy]]

\* UPDATE pets SET k=? ... WHERE id=? for the keys of data.
db_update_pet(P, pet_id, data) ==
    [p \in DOMAIN P |->
        IF p = pet_id
        THEN [k \in DOMAIN P[p] |->
                IF k \in DOMAIN data THEN data[k] ELSE P[p][k]]
        ELSE P[p]]

-----------------------------------------------------------------------------
(* Alert evaluation: maybe_send_alerts *)

NotLost_NoGate(pet) == FALSE

\* if pet.get("status") != "lost": return
NotLost(pet) == pet.status # "lost"

DistanceApplies_NoZeroCheck(pet, lat, lon) ==
    /\ ~IsNone(lat)
    /\ ~IsNone(lon)
    /\ ~IsNone(pet.home_lat)
    /\ ~IsNone(pet.home_lon)

\* lat is not None and lon is not None and home_lat and home_lon
\* and float(home_lat) != 0 and float(home_lon) != 0
DistanceApplies(pet, lat, lon) ==
    /\ ~IsNone(lat)
    /\ ~IsNone(lon)
    /\ Truthy(pet.home_lat)
    /\ Truthy(pet.home_lon)
    /\ pet.home_lat.v # 0
    /\ pet.home_lon.v # 0

\* float(lat), float(lon) of a non-numeric text raise ValueError.
FloatRaises(x) == x.t = "str"

DistanceRaises(pet, lat, lon) ==
    DistanceApplies(pet, lat, lon) /\ (FloatRaises(lat) \/ FloatRaises(lon))

DistanceFires(pet, lat, lon) ==
    /\ DistanceApplies(pet, lat, lon)
    /\ haversine_km(pet.home_lat.v, pet.home_lon.v, lat.v, lon.v)
           >= ALERT_DISTANCE_KM

BurstFires(S, pet_id, clock) ==
    db_scan_burst_count(S, pet_id, ALERT_SCAN_BURST_MIN, clock)
        >= ALERT_SCAN_BURST_COUNT

\* The list alerts, in the order the rules append to it.
AlertReasons(pet, pet_id, ts_utc, lat, lon, S, clock, start, end) ==
    (IF is_night(ts_utc, start, end) THEN <<"night">> ELSE <<>>)
    \o (IF BurstFires(S, pet_id, clock) THEN <<"burst">> ELSE <<>>)
    \o (IF DistanceFires(pet, lat, lon) THEN <<"distance">> ELSE <<>>)

\* One call of discord_notify: the message handed to the sink.
Message(kind, reasons) == [kind |-> kind, reasons |-> reasons]

discord_notify(sent, msg) == IF DISCORD_ENABLED THEN Append(sent, msg) ELSE sent

-----------------------------------------------------------------------------
(* Requests *)

IdleReq ==
    [op |-> "none", pc |-> "idle", pet_id |-> "none", pet |-> NoPet,
     ts |-> NoTs, lat |-> Null, lon |-> Null, acc |-> Null,
     sent |-> <<>>, alerts |-> <<>>, resp |-> "none", err |-> "none",
     points |-> <<>>]

Idle(w) == req[w].pc = "idle"

\* The handler returns (or an exception escapes it): the response is ready.
Done(r, resp, err) == [r EXCEPT !.pc = "done", !.resp = resp, !.err = err]

Init ==
    /\ now = 50
    /\ pets = seed_default_pet
    /\ scans = <<>>
    /\ req = [w \in Workers |-> IdleReq]
    /\ night_start = ALERT_NIGHT_START
    /\ night_end = ALERT_NIGHT_END

\* Time passes.
Tick(C) ==
    /\ \E t \in C : t > now /\ now' = t
    /\ UNCHANGED <<pets, scans, req, night_start, night_end>>

\* GET /p/{pet_id}: db_get_pet and the not-found return.  (The redirect of
\* the id "Frida" needs a row of that id; admin_create_pet lower-cases ids.)
PetPageBegin(w, pet_id) ==
    /\ Idle(w)
    /\ LET pet == db_get_pet(pets, pet_id)
           r == [IdleReq EXCEPT !.op = "pet_page", !.pet_id = pet_id, !.pet = pet]
       IN  req' = [req EXCEPT ![w] =
                      IF pet = NoPet THEN Done(r, "404", "none")
                      ELSE [r EXCEPT !.pc = "insert"]]
    /\ UNCHANGED <<now, pets, scans, night_start, night_end>>

\* POST /api/scan/{pet_id}: db_get_pet, the not-found return, request.json()
\* of a body that is a JSON object.
ScanGeoBegin(w, pet_id, body) ==
    /\ Idle(w)
    /\ LET pet == db_get_pet(pets, pet_id)
           r == [IdleReq EXCEPT !.op = "scan_geo", !.pet_id = pet_id, !.pet = pet]
       IN  req' = [req EXCEPT ![w] =
                      IF pet = NoPet THEN Done(r, "404", "none")
                      ELSE [r EXCEPT !.pc = "insert", !.lat = body.lat,
                                     !.lon = body.lon, !.acc = body.accuracy]]
    /\ UNCHANGED <<now, pets, scans, night_start, night_end>>

\* ts = now_utc_iso(); db_insert_scan(...) of pet_page and scan_geo.
InsertScan(w, cap) ==
    /\ req[w].pc = "insert"
    /\ Len(scans) < cap
    /\ LET ts == now_utc_iso(now)
       IN  /\ scans' = db_insert_scan(scans, req[w].pet_id, ts,
                                      req[w].lat, req[w].lon, req[w].acc)
           /\ req' = [req EXCEPT ![w].ts = ts, ![w].pc = "update"]
    /\ UNCHANGED <<now, pets, night_start, night_end>>

\* db_update_last_seen(...) of pet_page, scan_geo and report_sighting.
UpdateLastSeen(w) ==
    /\ req[w].pc = "update"
    /\ pets' = db_update_last_seen(pets, req[w].pet_id, req[w].ts,
                                   req[w].lat, req[w].lon, req[w].acc)
    /\ req' = [req EXCEPT ![w].pc =
                  IF req[w].op = "report_sighting" THEN "alerts" ELSE "notify"]
    /\ UNCHANGED <<now, scans, night_start, night_end>>

InfoKind(op) ==
    CASE op = "pet_page" -> "scan"
      [] op = "scan_geo" -> "location"
      [] op = "report_sighting" -> "report"

\* await discord_notify(...): the informational message of the handler.  An
\* httpx timeout is raised out of discord_notify and out of the handler.
NotifyInfo(w, sink) ==
    /\ req[w].pc = "notify"
    /\ LET r == [req[w] EXCEPT
                    !.sent = discord_notify(@, Message(InfoKind(req[w].op), <<>>))]
           located == ~IsNone(r.lat) /\ ~IsNone(r.lon)
       IN  req' = [req EXCEPT ![w] =
                IF DISCORD_ENABLED /\ sink = "timeout" THEN Done(r, "500", "sink")
                ELSE CASE r.op = "pet_page" -> Done(r, "200", "none")
                       [] r.op = "scan_geo" -> [r EXCEPT !.pc = "alerts"]
                       [] r.op = "report_sighting" ->
                            IF located THEN [r EXCEPT !.pc = "update"]
                            ELSE Done(r, "200", "none")]
    /\ UNCHANGED <<now, pets, scans, night_start, night_end>>

\* await maybe_send_alerts(pet, pet_id, ts, ip, lat, lon, acc); return ok.
SendAlerts(w, sink) ==
    /\ req[w].pc = "alerts"
    /\ LET r == req[w]
           alerts == AlertReasons(r.pet, r.pet_id, r.ts, r.lat, r.lon,
                                  scans, now, night_start, night_end)
       IN  req' = [req EXCEPT ![w] =
                IF NotLost(r.pet) THEN Done(r, "200", "none")
                ELSE IF DistanceRaises(r.pet, r.lat, r.lon)
                THEN Done(r, "500", "value")
                ELSE IF alerts = <<>>
                THEN Done(r, "200", "none")
                ELSE LET q == [r EXCEPT !.alerts = alerts,
                                  !.sent = discord_notify(@, Message("alert", alerts))]
                     IN  IF DISCORD_ENABLED /\ sink = "timeout"
                         THEN Done(q, "500", "sink")
                         ELSE Done(q, "200", "none")]
    /\ UNCHANGED <<now, pets, scans, night_start, night_end>>

\* POST /api/report/{pet_id}: db_get_pet, the payload, the message check,
\* ts = now_utc_iso().
ReportSightingBegin(w, pet_id, body, message_len) ==
    /\ Idle(w)
    /\ LET pet == db_get_pet(pets, pet_id)
           r == [IdleReq EXCEPT !.op = "report_sighting", !.pet_id = pet_id,
                                !.pet = pet]
       IN  req' = [req EXCEPT ![w] =
                IF pet = NoPet THEN Done(r, "404", "none")
                ELSE IF message_len < 3 THEN Done(r, "400", "none")
                ELSE [r EXCEPT !.pc = "notify", !.ts = now_utc_iso(now),
                               !.lat = body.lat, !.lon = body.lon]]
    /\ UNCHANGED <<now, pets, scans, night_start, night_end>>

\* GET /api/locations/{pet_id}
api_locations(w, pet_id, limit) ==
    /\ Idle(w)
    /\ LET pet == db_get_pet(pets, pet_id)
           r == [IdleReq EXCEPT !.op = "api_locations", !.pet_id = pet_id,
                                !.pet = pet]
       IN  req' = [req EXCEPT ![w] =
                IF pet = NoPet THEN Done(r, "404", "none")
                ELSE Done([r EXCEPT !.points = db_last_locations(scans, pet_id, limit)],
                          "200", "none")]
    /\ UNCHANGED <<now, pets, scans, night_start, night_end>>

\* The response leaves the server and the handler's locals are gone.
Respond(w) ==
    /\ req[w].pc = "done"
    /\ req' = [req EXCEPT ![w] = IdleReq]
    /\ UNCHANGED <<now, pets, scans, night_start, night_end>>

\* POST /admin/pet/{pet_id}/status, authenticated.
admin_toggle_status(pet_id, status) ==
    /\ pets' = db_update_pet(pets, pet_id,
                   [k \in {"status"} |-> IF status = "home" THEN "home" ELSE "lost"])
    /\ pets' # pets
    /\ UNCHANGED <<now, scans, req, night_start, night_end>>

\* POST /admin/pet/{pet_id}/update, authenticated: home_lat, home_lon.
admin_update_pet(pet_id, home) ==
    /\ pets' = db_update_pet(pets, pet_id,
                   [k \in {"home_lat", "home_lon"} |->
                        IF k = "home_lat" THEN home[1] ELSE home[2]])
    /\ pets' # pets
    /\ UNCHANGED <<now, scans, req, night_start, night_end>>

\* The steps of a request in flight on worker w.
Steps(w, cap, K) ==
    \/ InsertScan(w, cap)
    \/ UpdateLastSeen(w)
    \/ \E k \in K : NotifyInfo(w, k)
    \/ \E k \in K : SendAlerts(w, k)
    \/ Respond(w)

\* No request is in flight.
Quiet == \A w \in Workers : Idle(w)

\* Requests served one at a time.
Next ==
    \/ \E w \in Serial, p \in PetIds : PetPageBegin(w, p)
    \/ \E w \in Serial, p \in PetIds, b \in Bodies : ScanGeoBegin(w, p, b)
    \/ \E w \in Serial, p \in PetIds, b \in Bodies, n \in MessageLengths :
            ReportSightingBegin(w, p, b, n)
    \/ \E w \in Serial, p \in PetIds, l \in Limits : api_locations(w, p, l)
    \/ \E w \in Serial : Steps(w, MaxScans, SinkOutcomes)
    \/ Quiet /\ \E p \in PetIds, s \in StatusForms : admin_toggle_status(p, s)
    \/ Quiet /\ \E p \in PetIds, h \in Homes : admin_update_pet(p, h)
    \/ Quiet /\ Tick(Clock)

Spec == Init /\ [][Next]_vars

\* Requests served one at a time, up to the burst threshold.
NextBurst ==
    \/ \E w \in Serial : PetPageBegin(w, "rocky")
    \/ \E w \in Serial, b \in FewBodies : ScanGeoBegin(w, "rocky", b)
    \/ \E w \in Serial, b \in FewBodies : ReportSightingBegin(w, "rocky", b, 3)
    \/ \E w \in Serial : Steps(w, MaxBurstScans, SinkOutcomes)
    \/ Quiet /\ \E s \in StatusForms : admin_toggle_status("rocky", s)
    \/ Quiet /\ Tick(Clock)

SpecBurst == Init /\ [][NextBurst]_vars

\* Two workers serve requests concurrently; the clock does not wait for them.
NextConc ==
    \/ \E w \in Workers : PetPageBegin(w, "rocky")
    \/ \E w \in Workers, b \in FewBodies : ScanGeoBegin(w, "rocky", b)
    \/ \E w \in Workers, b \in FewBodies : ReportSightingBegin(w, "rocky", b, 3)
    \/ \E w \in Workers : Steps(w, MaxConcScans, {"ok"})
    \/ Tick(ConcClock)

SpecConc == Init /\ [][NextConc]_vars

\* Two workers serve page views and location reports of the seeded pet
\* concurrently, and no other request arrives.
NextScans ==
    \/ \E w \in Workers : PetPageBegin(w, "rocky")
    \/ \E w \in Workers, b \in FewBodies : ScanGeoBegin(w, "rocky", b)
    \/ \E w \in Workers : Steps(w, MaxConcScans, {"ok"})
    \/ Tick(ConcClock)

SpecScans == Init /\ [][NextScans]_vars

\* The night window is read from the environment at process start; a location
\* report for the seeded pet arrives at any hour of the day.
InitNight ==
    /\ now \in {60 * h : h \in 0..23}
    /\ pets = seed_default_pet
    /\ scans = <<>>
    /\ req = [w \in Workers |-> IdleReq]
    /\ night_start \in 0..23
    /\ night_end \in 0..23

NextNight ==
    \/ \E w \in Serial : ScanGeoBegin(w, "rocky", Located)
    \/ \E w \in Serial : Steps(w, MaxNightScans, {"ok"})

SpecNight == InitNight /\ [][NextNight]_vars

-----------------------------------------------------------------------------
(* Properties *)

Range(f) == {f[i] : i \in DOMAIN f}

Finished(w) == req[w].pc = "done"

AlertSent(r) == \E i \in DOMAIN r.sent : r.sent[i].kind = "alert"

\* C1: the alert evaluation of a pet whose record says status 'home' yields
\* no alert reason and hands no alert message to the sink, whatever the
\* event's timestamp, coordinates and the scan history are.
C1_HomePetNeverAlerts ==
    \A w \in Workers :
        req[w].pet.status = "home" =>
            req[w].alerts = <<>> /\ ~AlertSent(req[w])

\* A located report for a pet marked home, at night, 2.2 km from its home,
\* has been through the evaluator and answered.
C1_Witness ==
    \E w \in Workers :
        /\ Finished(w)
        /\ req[w].op = "scan_geo"
        /\ req[w].resp = "200"
        /\ req[w].pet.status = "home"
        /\ is_night(req[w].ts, night_start, night_end)
        /\ DistanceFires(req[w].pet, req[w].lat, req[w].lon)

LastLocation(row) == <<row.last_lat, row.last_lon, row.last_accuracy>>

\* C2: a location-less page view of an existing pet leaves a previously
\* recorded last-seen location (last_lat, last_lon, last_accuracy) as it was.
C2_PageViewKeepsLocation ==
    [][\A w \in Workers :
          (req[w].op = "pet_page" /\ req[w].pc = "update" /\ req'[w].pc # "update")
          => LET p == req[w].pet_id
             IN  ~IsNone(pets[p].last_lat) =>
                    LastLocation(pets'[p]) = LastLocation(pets[p])]_vars

Exists(pet_id) == pet_id \in DOMAIN pets

\* C3: a page view or a location report for a pet id with no row answers
\* not-found at once, hands nothing to the sink, and no step of it changes
\* the scans table or any pet row.
C3_MissingPetNoEffect ==
    [][\A w \in Workers :
          /\ (/\ req'[w] # req[w]
              /\ req'[w].op \in {"pet_page", "scan_geo"}
              /\ ~Exists(req'[w].pet_id))
             => /\ req'[w].pc = "done"
                /\ req'[w].resp = "404"
                /\ req'[w].sent = <<>>
                /\ scans' = scans
                /\ pets' = pets
          /\ (/\ req'[w] # req[w]
              /\ req[w].op \in {"pet_page", "scan_geo"}
              /\ ~Exists(req[w].pet_id))
             => /\ req[w].pc = "done"
                /\ scans' = scans
                /\ pets' = pets]_vars

\* A request for the missing pet has been answered while the log holds rows.
C3_Witness ==
    \E w \in Workers :
        /\ Finished(w)
        /\ req[w].op \in {"pet_page", "scan_geo"}
        /\ req[w].pet_id = "ghost"
        /\ req[w].resp = "404"
        /\ Len(scans) > 0
        /\ pets["rocky"].last_seen_utc # NoTs

\* C4: a page view or location report of an existing pet never ends with the
\* sink's failure as its response.
C4_SinkFailureNotSurfaced ==
    \A w \in Workers :
        (Finished(w) /\ req[w].op \in {"pet_page", "scan_geo"} /\ req[w].pet # NoPet)
        => ~(req[w].resp = "500" /\ req[w].err = "sink")

\* The log holds a row for the event request r reports.
TriggerStored(r) ==
    \E i \in DOMAIN scans :
        /\ scans[i].pet_id = r.pet_id
        /\ scans[i].ts_utc = r.ts
        /\ scans[i].lat = r.lat
        /\ scans[i].lon = r.lon

\* The pet's events inside the trailing burst window, the triggering event of
\* request r counted once.
EventsInWindow(r) ==
    Cardinality({i \in DOMAIN scans :
                    /\ scans[i].pet_id = r.pet_id
                    /\ parse_iso(scans[i].ts_utc) >= now - ALERT_SCAN_BURST_MIN})
    + (IF TriggerStored(r) THEN 0 ELSE 1)

\* C5: on every path into the evaluator, for a lost pet, the burst rule fires
\* exactly when the pet's events inside the window, the triggering event
\* included, number at least the threshold.
C5_BurstCountsTrigger ==
    [][\A w \in Workers :
          (/\ req[w].pc = "alerts"
           /\ req'[w].pc = "done"
           /\ req[w].pet.status = "lost"
           /\ req'[w].err # "value")
          => ("burst" \in Range(req'[w].alerts)
                <=> EventsInWindow(req[w]) >= ALERT_SCAN_BURST_COUNT)]_vars

HasCoordinates(r) == r.lat.t = "num" /\ r.lon.t = "num"

\* A home location with no missing and no zero coordinate.
UsableHome(pet) ==
    /\ pet.home_lat.t = "num" /\ pet.home_lat.v # 0
    /\ pet.home_lon.t = "num" /\ pet.home_lon.v # 0

HomeToEvent(r) ==
    haversine_km(r.pet.home_lat.v, r.pet.home_lon.v, r.lat.v, r.lon.v)

\* C6: the distance rule fires only for an event with both coordinates and a
\* pet with a usable home; for a lost pet under these conditions it fires
\* exactly when the distance from home is at least the threshold; a home of
\* (0, 0) never fires it.
C6_DistanceRule ==
    [][\A w \in Workers :
          (req[w].pc = "alerts" /\ req'[w].pc = "done")
          => LET r == req[w]
                 fired == "distance" \in Range(req'[w].alerts)
             IN  /\ fired => HasCoordinates(r) /\ UsableHome(r.pet)
                 /\ (r.pet.status = "lost" /\ HasCoordinates(r) /\ UsableHome(r.pet))
                    => (fired <=> HomeToEvent(r) >= ALERT_DISTANCE_KM)
                 /\ (r.pet.home_lat = Num(0) /\ r.pet.home_lon = Num(0))
                    => ~fired]_vars

\* The evaluator has fired the distance rule, and the pet's home is 2.2 km
\* from the event.
C6_Witness ==
    \E w \in Workers :
        /\ Finished(w)
        /\ "distance" \in Range(req[w].alerts)
        /\ HomeToEvent(req[w]) >= ALERT_DISTANCE_KM

\* The local hours of the night window [start, end), wrapping at midnight
\* when start > end.
NightHours(start, end) ==
    IF start <= end
    THEN {h \in 0..23 : start <= h /\ h < end}
    ELSE {h \in 0..23 : h >= start} \cup {h \in 0..23 : h < end}

\* C7: for every local hour and every configured window the night rule fires
\* exactly in the hours of [start, end), wrapping when start > end: 22..23
\* and 0..5 for (22, 6), 6..21 for (6, 22).
C7_NightWindow ==
    \A w \in Workers :
        (Finished(w) /\ req[w].op = "scan_geo" /\ req[w].resp = "200")
        => LET h == LocalHour(req[w].ts)
               night == "night" \in Range(req[w].alerts)
           IN  /\ night <=> h \in NightHours(night_start, night_end)
               /\ (night_start = 22 /\ night_end = 6)
                  => (night <=> h \in {22, 23, 0, 1, 2, 3, 4, 5})
               /\ (night_start = 6 /\ night_end = 22)
                  => (night <=> h \in 6..21)

\* With the window (22, 6), a report at 02:00 local time fired the night rule.
C7_Witness ==
    \E w \in Workers :
        /\ Finished(w)
        /\ req[w].resp = "200"
        /\ night_start = 22
        /\ night_end = 6
        /\ LocalHour(req[w].ts) = 2
        /\ "night" \in Range(req[w].alerts)

IsMalformed(r) == r.lat.t = "str" \/ r.lon.t = "str"

\* C8: a location report of an existing pet with non-numeric coordinates,
\* the sink working, returns success with the event recorded, the
\* informational message dispatched and no distance alert.
C8_MalformedIsNoLocation ==
    \A w \in Workers :
        (/\ Finished(w)
         /\ req[w].op = "scan_geo"
         /\ req[w].pet # NoPet
         /\ IsMalformed(req[w])
         /\ req[w].err # "sink")
        => /\ req[w].resp = "200"
           /\ TriggerStored(req[w])
           /\ \E i \in DOMAIN req[w].sent : req[w].sent[i].kind = "location"
           /\ "distance" \notin Range(req[w].alerts)

LastSeen(row) ==
    <<row.last_seen_utc, row.last_lat, row.last_lon, row.last_accuracy>>

\* C9: under any interleaving, the last-seen fields of a pet change only all
\* four at once, to the timestamp and location of one request's update, and
\* a read of the pet row returns the row as one state holds it: no reader
\* sees the timestamp of one update with the location of another.
C9_LastSeenPaired ==
    [][\A p \in DOMAIN pets :
          /\ LastSeen(pets'[p]) # LastSeen(pets[p])
             => \E w \in Workers :
                   /\ req[w].pc = "update"
                   /\ req[w].pet_id = p
                   /\ LastSeen(pets'[p])
                        = <<req[w].ts, req[w].lat, req[w].lon, req[w].acc>>
          /\ \A w \in Workers :
                (req'[w].pet_id = p /\ req[w].pc = "idle" /\ req'[w].pc # "idle")
                => req'[w].pet = pets[p]]_vars

\* A reader holds the row one request wrote while another request, with a
\* different timestamp and location, is about to update it.
C9_Witness ==
    \E w \in Workers, v \in Workers :
        /\ w # v
        /\ req[w].pc = "update"
        /\ req[v].pc \notin {"idle", "done"}
        /\ req[v].pet.last_seen_utc # NoTs
        /\ req[v].pet.last_seen_utc # req[w].ts
        /\ ~IsNone(req[v].pet.last_lat)
        /\ IsNone(req[w].lat)

SameData(a, b) ==
    /\ a.pet_id = b.pet_id
    /\ a.ts_utc = b.ts_utc
    /\ a.lat = b.lat
    /\ a.lon = b.lon
    /\ a.accuracy = b.accuracy

\* Row number i of the log is in the result rows, and before row number j.
Appears(rows, i) == \E k \in DOMAIN rows : rows[k].id = scans[i].id

Before(rows, j, i) ==
    \E k \in DOMAIN rows, m \in DOMAIN rows :
        k < m /\ rows[k].id = scans[j].id /\ rows[m].id = scans[i].id

\* C10 as claimed: two stored events with the same data have increasing ids
\* and both are in the recent-events query, the later one first.
C10_BothInRecent ==
    \A i \in DOMAIN scans, j \in DOMAIN scans :
        (i < j /\ SameData(scans[i], scans[j]))
        => /\ scans[i].id < scans[j].id
           /\ LET rows == LastLocationRows(scans, scans[i].pet_id, 25)
              IN  Appears(rows, i) /\ Appears(rows, j) /\ Before(rows, j, i)

Clamp(limit) == IF limit < 1 THEN 1 ELSE IF limit > 200 THEN 200 ELSE limit

\* C10 amended: the log only grows, by one row with the next id for each
\* recorded event, equal data or not, and its rows never change; the
\* locations query returns the pet's rows with non-null lat and lon, most
\* recent first, cut to the clamped limit: two equal events are both in it,
\* the later first, when they carry coordinates and the limit admits them.
C10_AppendOnlyLocatedRecent ==
    /\ [](\A i \in DOMAIN scans : scans[i].id = i)
    /\ [][/\ Len(scans') >= Len(scans)
          /\ SubSeq(scans', 1, Len(scans)) = scans
          /\ \A w \in Workers :
                (req[w].pc = "insert" /\ req'[w].pc = "update")
                => /\ Len(scans') = Len(scans) + 1
                   /\ scans'[Len(scans')].pet_id = req[w].pet_id
                   /\ scans'[Len(scans')].lat = req[w].lat]_vars
    /\ [](\A p \in PetIds, l \in Limits \cup {25} :
            LET rows == LastLocationRows(scans, p, l)
                located == {i \in DOMAIN scans :
                               /\ scans[i].pet_id = p
                               /\ ~IsNone(scans[i].lat)
                               /\ ~IsNone(scans[i].lon)}
            IN  /\ \A k \in DOMAIN rows : rows[k].id \in located
                /\ \A k \in DOMAIN rows, m \in DOMAIN rows :
                      k < m => rows[k].id > rows[m].id
                /\ \A i \in located :
                      Cardinality({j \in located : j >= i}) <= Clamp(l)
                      => Appears(rows, i))

\* Two located events with the same data are stored, and the query with the
\* default limit returns both, the later first.
C10_Witness ==
    \E i \in DOMAIN scans, j \in DOMAIN scans :
        /\ i < j
        /\ SameData(scans[i], scans[j])
        /\ ~IsNone(scans[i].lat)
        /\ LET rows == LastLocationRows(scans, scans[i].pet_id, 25)
           IN  Appears(rows, i) /\ Appears(rows, j) /\ Before(rows, j, i)

OwnerFields(row) == <<row.status, row.home_lat, row.home_lon>>

\* C11: no step of a page view, location report, sighting report or
\* locations query changes a pet's status or home location; a step that
\* changes them is an admin action, which touches no request and no scan, and
\* a request's step changes at most the last-seen fields of the rows.
C11_EngineKeepsStatus ==
    [][/\ DOMAIN pets' = DOMAIN pets
       /\ \A p \in DOMAIN pets :
             /\ OwnerFields(pets'[p]) # OwnerFields(pets[p])
                => /\ req' = req
                   /\ scans' = scans
                   /\ LastSeen(pets'[p]) = LastSeen(pets[p])
             /\ req' # req => OwnerFields(pets'[p]) = OwnerFields(pets[p])]_vars

\* The owner marked the pet home and saved a home; since then a sighting
\* report with coordinates has been processed to its end.
C11_Witness ==
    \E w \in Workers :
        /\ Finished(w)
        /\ req[w].op = "report_sighting"
        /\ req[w].resp = "200"
        /\ pets["rocky"].status = "home"
        /\ pets["rocky"].home_lon = Num(EventLon)
        /\ pets["rocky"].last_seen_utc = req[w].ts
        /\ Len(scans) > 0

\* The rules that fire for the event of request r, each judged on its own:
\* the night rule by the event's local hour, the burst rule by the pet's
\* stored events of the trailing window, the distance rule by the event's
\* coordinates and the pet's home.
FiredRules(r) ==
    (IF LocalHour(r.ts) \in NightHours(night_start, night_end)
     THEN {"night"} ELSE {})
    \cup
    (IF Cardinality({i \in DOMAIN scans :
                        /\ scans[i].pet_id = r.pet_id
                        /\ parse_iso(scans[i].ts_utc) >= now - ALERT_SCAN_BURST_MIN})
        >= ALERT_SCAN_BURST_COUNT
     THEN {"burst"} ELSE {})
    \cup
    (IF /\ HasCoordinates(r)
        /\ UsableHome(r.pet)
        /\ HomeToEvent(r) >= ALERT_DISTANCE_KM
     THEN {"distance"} ELSE {})

AlertMessages(r) == {i \in DOMAIN r.sent : r.sent[i].kind = "alert"}

\* C12: the evaluation of one event of a lost pet hands the sink exactly one
\* alert message, carrying every rule that fires, when at least one of the
\* night, burst and distance rules fires, and no alert message when none does.
C12_OneMessageAllReasons ==
    [][\A w \in Workers :
          (/\ req[w].pc = "alerts"
           /\ req'[w].pc = "done"
           /\ req[w].pet.status = "lost")
          => LET fired == FiredRules(req[w])
                 q == req'[w]
             IN  /\ Cardinality(AlertMessages(q)) = IF fired = {} THEN 0 ELSE 1
                 /\ \A i \in AlertMessages(q) :
                       Range(q.sent[i].reasons) = fired]_vars

EventsOf(pet_id) == {i \in DOMAIN scans : scans[i].pet_id = pet_id}

\* The identifier of the pet's most recently inserted event.
Newest(pet_id) == CHOOSE m \in EventsOf(pet_id) : \A i \in EventsOf(pet_id) : i <= m

\* C13: once every page view and location report in flight has completed,
\* the pet's last-seen timestamp and location are those of its most recently
\* inserted event.
C13_LastSeenIsNewestEvent ==
    (\A w \in Workers : Idle(w) \/ Finished(w))
    => \A p \in DOMAIN pets :
          EventsOf(p) # {}
          => LastSeen(pets[p]) = <<scans[Newest(p)].ts_utc, scans[Newest(p)].lat,
                                   scans[Newest(p)].lon, scans[Newest(p)].accuracy>>

\* C14: in every state a pet's last-seen timestamp, when it has one, is the
\* timestamp of an event stored in the log for that pet.
C14_LastSeenIsLogged ==
    \A p \in DOMAIN pets :
        pets[p].last_seen_utc # NoTs
        => \E i \in EventsOf(p) : scans[i].ts_utc = pets[p].last_seen_utc

====
